---- MODULE Spec2Model ----
(***************************************************************************)
(* GuardMidia: a browser media gallery.  The model covers the client-side  *)
(* data layer of src/types.ts: the localStorage hook, the account          *)
(* directory (AuthProvider), the per-user media catalog (MediaProvider),   *)
(* backup / restore, and the asynchronous upload that ends in addMedia.    *)
(*                                                                         *)
(* React specifics that the model keeps:                                   *)
(*  - a handler runs against the values captured by the render that       *)
(*    created it; a handler started by a user event sees the latest        *)
(*    render, an asynchronous continuation (upload, FileReader.onload)     *)
(*    sees the render that was current when it was started;                *)
(*  - setState on an unmounted component is ignored, the localStorage      *)
(*    write next to it is not;                                             *)
(*  - localStorage.setItem may throw (quota); useLocalStorage.setValue     *)
(*    swallows the exception after the in-memory state was already set.    *)
(*                                                                         *)
(* Math.random()/Date.now() ids are modelled as never colliding: the n-th  *)
(* generated id is GenId(n).                                               *)
(***************************************************************************)
EXTENDS Integers, Sequences, FiniteSets, TLC

(* ------------------------------ bounds -------------------------------- *)
MaxIds == 2          \* ids generated by addMedia over a whole behaviour
MaxViews == 2        \* incrementView is not taken beyond this count
MaxPending == 1      \* asynchronous operations in flight at one time

(* --------------------------- input domains ---------------------------- *)
Usernames == {"a", "b"}
Passwords == {"p", "q"}
Null == "null"                 \* JS null for the session identity
Undefined == -1                \* JS undefined in a numeric property
Times == {"t1"}                \* values of new Date().toISOString()
SemCategoria == "Sem Categoria"
Todos == "Todos"

\* Files the user can select: name, MIME type, size, intrinsic dimensions.
ImgFile == [name |-> "a.png", type |-> "image/png", size |-> 1, w |-> 4, h |-> 3]
VidFile == [name |-> "v.mp4", type |-> "video/mp4", size |-> 2, w |-> 0, h |-> 0]
Files == {ImgFile, VidFile}
\* the size limit of handleFileChange, and a file above it
MaxFileSize == 5 * 1024 * 1024
BigFile == [name |-> "big.png", type |-> "image/png", size |-> MaxFileSize + 1, w |-> 9, h |-> 9]
\* a file with an image MIME type whose bytes no decoder accepts: it has no
\* intrinsic dimensions
BadImg == [name |-> "bad.png", type |-> "image/png", size |-> 3, w |-> Undefined, h |-> Undefined]

CategoryInputs == {""}         \* text typed in the upload form

GenId(n) == "g" \o ToString(n)
GenIds == {GenId(n) : n \in 1..MaxIds}
Ids == GenIds \cup {"x1"}     \* ids handed to delete, update and incrementView

(* ------------------------- JavaScript helpers ------------------------- *)
NumFields == {"views", "size", "width", "height"}

\* item.f in a boolean context, for a string property
TruthyStr(r, f) == f \in DOMAIN r /\ r[f] # ""

\* { ...item, ...updates }
Spread(item, updates) ==
  [f \in (DOMAIN item) \cup (DOMAIN updates) |->
      IF f \in DOMAIN updates THEN updates[f] ELSE item[f]]

\* (x?.views || 0), x found or not
ViewsOr0(r) == IF "views" \in DOMAIN r /\ r.views # Undefined THEN r.views ELSE 0

\* Array.prototype.find: index of the first record with this id, 0 if none
RECURSIVE FindFrom(_, _, _)
FindFrom(cat, id, i) ==
  IF i > Len(cat) THEN 0
  ELSE IF "id" \in DOMAIN cat[i] /\ cat[i].id = id THEN i
  ELSE FindFrom(cat, id, i + 1)
Find(cat, id) == FindFrom(cat, id, 1)

\* Array.prototype.filter with the predicate item.id !== id
RECURSIVE FilterNotId(_, _)
FilterNotId(cat, id) ==
  IF cat = <<>> THEN <<>>
  ELSE (IF "id" \in DOMAIN Head(cat) /\ Head(cat).id = id THEN <<>> ELSE <<Head(cat)>>)
       \o FilterNotId(Tail(cat), id)

(* ------------------------------- JSON --------------------------------- *)
\* A text is modelled by what JSON.parse makes of it: "garbage" does not
\* parse, "object" parses to a non-array value, "array" parses to items.
Garbage == [kind |-> "garbage", items |-> <<>>]
JsonObject == [kind |-> "object", items |-> <<>>]
JsonArray(items) == [kind |-> "array", items |-> items]

\* a serialiser that drops every falsy number, not only undefined
StringifyRecordDropFalsy(r) ==
  [f \in {g \in DOMAIN r : ~(g \in NumFields /\ r[g] \in {Undefined, 0})} |-> r[f]]

\* JSON.stringify of one object: properties whose value is undefined are dropped
StringifyRecord(r) ==
  [f \in {g \in DOMAIN r : ~(g \in NumFields /\ r[g] = Undefined)} |-> r[f]]

\* JSON.stringify(catalog)
Stringify(cat) == JsonArray([i \in 1..Len(cat) |-> StringifyRecord(cat[i])])

ParseThrows(text) == text.kind = "garbage"
IsArray(text) == text.kind = "array"

\* a validation that looks at the id only
EveryValidIdOnly(items) ==
  \A i \in 1..Len(items) : TruthyStr(items[i], "id")

\* restoredMedia.every(item => item.id && item.name && item.dataUrl)
EveryValid(items) ==
  \A i \in 1..Len(items) :
     TruthyStr(items[i], "id") /\ TruthyStr(items[i], "name") /\ TruthyStr(items[i], "dataUrl")

(* ------------------------------- state -------------------------------- *)
VARIABLES
  localStorage,   \* window.localStorage: key -> stored JSON text
  users,          \* AuthProvider: the directory, username -> password
  user,           \* AuthProvider: the session identity, or Null
  media,          \* MediaProvider: storedValue of the mounted provider
  nextId,         \* number of the next id addMedia generates
  uploads,        \* handleUpload calls awaiting Promise.all
  reads,          \* restoreData FileReaders awaiting onload
  download,       \* the last file produced by backupData
  nearQuota,      \* the browser's storage is near its quota: setItem may throw
  last,           \* the last handler that ran: its name, result and toast
  history,        \* what happened before: the catalog backupData serialised,
                  \* and per id the incrementView calls counted by CountedView
  theme,          \* ThemeProvider: storedValue of useLocalStorage('theme')
  viewMode        \* MediaGrid: storedValue of useLocalStorage('viewMode'), Null
                  \* while no MediaGrid is mounted

vars == <<localStorage, users, user, media, nextId, uploads, reads, download, nearQuota, last, history,
          theme, viewMode>>

NoFile == [kind |-> "none", items |-> <<>>]
\* the toasts of the data layer
NoToast == "none"
\* `${files.length} arquivo(s) enviado(s) com sucesso!`
ToastUploaded(n) == ToString(n) \o " arquivo(s) enviado(s) com sucesso!"
ToastUploadFailed == "Ocorreu um erro durante o envio."
ToastBackup == "Backup criado com sucesso!"
ToastRestored == "Dados restaurados com sucesso!"
ToastRestoreFailed == "Falha ao restaurar dados. Arquivo inválido."

\* last: the handler op ran with the arguments arg, returned ret (login: what a
\* login call made by it returned, "none" when it made none) and showed toast
DoneWith(op, arg, ret, login, toast) ==
  [op |-> op, arg |-> arg, ret |-> ret, login |-> login, toast |-> toast]
Done(op, ret, toast) == DoneWith(op, <<>>, ret, "none", toast)

MediaKey(u) == "media_" \o u

\* useState initialiser of useLocalStorage: item ? JSON.parse(item) : initialValue
LoadMedia(ls, key) ==
  IF key \in DOMAIN ls /\ ~ParseThrows(ls[key]) THEN ls[key].items ELSE <<>>

\* JSON.stringify of a string value: the text "\"light\"", "\"list\"", ...
JsonString(v) == [kind |-> "string", value |-> v]

\* the values of Theme and of the enum ViewMode
Light == "light"
Dark == "dark"
Grid == "grid"
List == "list"
ViewModes == {Grid, List}

\* useState initialiser of useLocalStorage over a key that holds a string:
\* item ? JSON.parse(item) : initialValue
LoadString(ls, key, initialValue) ==
  IF key \in DOMAIN ls /\ ~ParseThrows(ls[key]) THEN ls[key].value ELSE initialValue

\* localStorage.setItem(key, text); it throws when the quota is exceeded (ok = FALSE)
SetItem(ls, key, text, ok) == IF ok THEN (key :> text) @@ ls ELSE ls

\* the outcomes of one setItem call: TRUE it stores, FALSE it throws
WriteOutcomes == IF nearQuota THEN {TRUE, FALSE} ELSE {TRUE}

\* localStorage.removeItem(key)
RemoveItem(ls, key) == [k \in (DOMAIN ls) \ {key} |-> ls[k]]

NoHistory == [backedUp |-> <<>>, viewCalls |-> [id \in Ids |-> 0]]

Init ==
  /\ localStorage = [k \in {} |-> NoFile]
  /\ users = [u \in {} |-> ""]
  /\ user = Null
  /\ media = <<>>
  /\ nextId = 1
  /\ uploads = {}
  /\ reads = {}
  /\ download = NoFile
  /\ nearQuota = FALSE
  /\ last = Done("init", "none", NoToast)
  /\ history = NoHistory
  /\ theme = Light
  /\ viewMode = Null

(* --------------------------- AuthProvider ----------------------------- *)
JsonDirectory(dir) == [kind |-> "object", dir |-> dir]
JsonUser(u) == [kind |-> "object", username |-> u]

\* login's test: users[username] && users[username] === password, against
\* the directory dir captured by the closure that runs it
LoginMatches(dir, u, p) == u \in DOMAIN dir /\ dir[u] # "" /\ dir[u] = p

\* a register that does not look at the directory
UserExistsUnchecked(dir, u) == FALSE

\* register's test: users[username]
UserExists(dir, u) == u \in DOMAIN dir /\ dir[u] # ""

\* register's updater: prev => ({ ...prev, [username]: password })
Register(prev, u, p) == (u :> p) @@ prev

\* A MediaProvider unmounts: what its pending continuations still hold is a
\* state setter that no longer has any effect.
Unmount(pending) == {[c EXCEPT !.mounted = FALSE] : c \in pending}

\* what login returns when run by a closure that captured the directory dir;
\* wr: whether localStorage.setItem('currentUser', ...) succeeds
LoginResult(dir, u, p, wr) ==
  IF LoginMatches(dir, u, p) THEN (IF wr THEN "true" ELSE "throw") ELSE "false"

\* login(credentials) run by a closure that captured the directory dir.
\* On success App renders MediaProvider, whose hook loads media_<username>,
\* and MediaGrid, whose hook loads viewMode.
Login(dir, ls, u, p, wr) ==
  IF LoginMatches(dir, u, p)
  THEN /\ user' = u
       /\ localStorage' = SetItem(ls, "currentUser", JsonUser(u), wr)
       /\ media' = LoadMedia(ls, MediaKey(u))
       /\ viewMode' = LoadString(ls, "viewMode", Grid)
  ELSE /\ localStorage' = ls
       /\ UNCHANGED <<user, media, viewMode>>

\* AuthPage.handleSubmit in login mode
SubmitLogin(u, p) ==
  /\ user = Null
  /\ u # "" /\ p # ""
  /\ \E wr \in WriteOutcomes :
       /\ Login(users, localStorage, u, p, wr)
       /\ last' = DoneWith("login", <<u, p>>, LoginResult(users, u, p, wr), LoginResult(users, u, p, wr), NoToast)
  /\ UNCHANGED <<users, nextId, uploads, reads, download, nearQuota, theme, history>>

\* AuthPage.handleSubmit with an empty field: only the form's error is set
SubmitEmpty(u, p) ==
  /\ user = Null
  /\ u = "" \/ p = ""
  /\ last' = DoneWith("submit", <<u, p>>, "required", "none", NoToast)
  /\ UNCHANGED <<localStorage, users, user, media, nextId, uploads, reads, download, nearQuota, theme, viewMode, history>>

\* AuthPage.handleSubmit in register mode: register(), then login() from the
\* same closure, i.e. against the directory as it was rendered before
\* register's setUsers.
SubmitRegister(u, p) ==
  /\ user = Null
  /\ u # "" /\ p # ""
  /\ IF UserExists(users, u)
     THEN /\ last' = DoneWith("register", <<u, p>>, "false", "none", NoToast)
          /\ UNCHANGED <<localStorage, users, user, media, viewMode>>
     ELSE \E wr1 \in WriteOutcomes, wr2 \in WriteOutcomes :
          /\ users' = Register(users, u, p)
          /\ Login(users, SetItem(localStorage, "users", JsonDirectory(users'), wr1), u, p, wr2)
          /\ last' = DoneWith("register", <<u, p>>, "true", LoginResult(users, u, p, wr2), NoToast)
  /\ UNCHANGED <<nextId, uploads, reads, download, nearQuota, theme, history>>

\* logout(): MediaProvider and MediaGrid unmount with the session
Logout ==
  /\ user # Null
  /\ user' = Null
  /\ localStorage' = RemoveItem(localStorage, "currentUser")
  /\ media' = <<>>
  /\ viewMode' = Null
  /\ uploads' = Unmount(uploads)
  /\ reads' = Unmount(reads)
  /\ last' = Done("logout", "none", NoToast)
  /\ UNCHANGED <<users, nextId, download, nearQuota, theme, history>>

(* ----------------------- ThemeProvider, MediaGrid --------------------- *)
\* toggleTheme's updater: prevTheme => (prevTheme === 'light' ? 'dark' : 'light')
Toggled(prevTheme) == IF prevTheme = Light THEN Dark ELSE Light

\* useLocalStorage.setValue of a hook over a string (theme, viewMode): the
\* stored text after setItem(key, JSON.stringify(valueToStore)), which may
\* throw (wr = FALSE) once the state is set
SetValueString(key, valueToStore, wr) ==
  SetItem(localStorage, key, JsonString(valueToStore), wr)

\* toggleTheme(), from the button of Header
ToggleTheme ==
  /\ user # Null
  /\ theme' = Toggled(theme)
  /\ \E wr \in WriteOutcomes : localStorage' = SetValueString("theme", theme', wr)
  /\ last' = DoneWith("toggleTheme", <<>>, theme', "none", NoToast)
  /\ UNCHANGED <<users, user, media, nextId, uploads, reads, download, nearQuota, history, viewMode>>

\* setViewMode(mode), from the buttons of MediaControls
SetViewMode(mode) ==
  /\ user # Null
  /\ viewMode' = mode
  /\ \E wr \in WriteOutcomes : localStorage' = SetValueString("viewMode", mode, wr)
  /\ last' = DoneWith("setViewMode", <<mode>>, "none", "none", NoToast)
  /\ UNCHANGED <<users, user, media, nextId, uploads, reads, download, nearQuota, history, theme>>

(* --------------------------- MediaProvider ---------------------------- *)
\* a setValue that writes under the key of whoever is logged in when it runs
SetValueOfSession(key, mounted, valueToStore, wr) ==
  /\ media' = IF mounted THEN valueToStore ELSE media
  /\ localStorage' = SetItem(localStorage, MediaKey(user), Stringify(valueToStore), wr)

\* useLocalStorage.setValue run by a closure of the provider mounted for
\* key: the state setter acts only while that provider is mounted, the
\* write to localStorage happens in any case and may throw (wr = FALSE).
SetValue(key, mounted, valueToStore, wr) ==
  /\ media' = IF mounted THEN valueToStore ELSE media
  /\ localStorage' = SetItem(localStorage, MediaKey(key), Stringify(valueToStore), wr)

\* prev.filter(item => item.id !== id)
DeleteFrom(prev, id) == FilterNotId(prev, id)

\* an update that merges the fields into every record
UpdateInAll(prev, id, updates) == [i \in 1..Len(prev) |-> Spread(prev[i], updates)]

\* prev.map(item => item.id === id ? { ...item, ...updates } : item)
UpdateIn(prev, id, updates) ==
  [i \in 1..Len(prev) |->
     IF "id" \in DOMAIN prev[i] /\ prev[i].id = id THEN Spread(prev[i], updates) ELSE prev[i]]

\* an incrementView that always counts from 0
NextViewsFromZero(cat, id) == 1

\* the argument incrementView passes on: { views: (find(...)?.views || 0) + 1 }
NextViews(cat, id) ==
  LET i == Find(cat, id) IN (IF i = 0 THEN 0 ELSE ViewsOr0(cat[i])) + 1

\* deleteMedia(id), called from a handler of the current render
DeleteMedia(id) ==
  /\ user # Null
  /\ \E wr \in WriteOutcomes : SetValue(user, TRUE, DeleteFrom(media, id), wr)
  /\ last' = DoneWith("delete", <<id>>, "none", "none", NoToast)
  /\ UNCHANGED <<users, user, nextId, uploads, reads, download, nearQuota, theme, viewMode, history>>

\* updateMedia(id, updates), called from a handler of the current render
UpdateMedia(id, updates) ==
  /\ user # Null
  /\ \E wr \in WriteOutcomes : SetValue(user, TRUE, UpdateIn(media, id, updates), wr)
  /\ last' = DoneWith("update", <<id, updates>>, "none", "none", NoToast)
  /\ UNCHANGED <<users, user, nextId, uploads, reads, download, nearQuota, theme, viewMode, history>>

\* incrementView(id), run by the effect of MediaDetailModal
IncrementViewOf(id) ==
  /\ user # Null
  /\ NextViews(media, id) <= MaxViews
  /\ \E wr \in WriteOutcomes :
        SetValue(user, TRUE, UpdateIn(media, id, [views |-> NextViews(media, id)]), wr)
  /\ last' = Done("view", "none", NoToast)
  /\ UNCHANGED <<users, user, nextId, uploads, reads, download, nearQuota, theme, viewMode>>

IncrementView(id) == IncrementViewOf(id) /\ UNCHANGED history

\* the same call, counted
CountedView(id) ==
  /\ history.viewCalls[id] < MaxViews
  /\ IncrementViewOf(id)
  /\ history' = [history EXCEPT !.viewCalls[id] = @ + 1]

(* ------------------------------ upload -------------------------------- *)
\* a test that takes every file for an image
StartsWithImageAlways(mime) == TRUE

\* file.type.startsWith('image'), over the MIME types of Files
StartsWithImage(mime) == mime \in {"image/png"}

\* fileToBase64: the data URL of a file
FileToBase64(f) == "data:" \o f.type \o ";base64," \o f.name

\* generateTagsForImage, by what the service does: no API key, the call
\* throws, the response has no text, the response has text
TagOutcomes == {"nokey", "error", "empty", "text"}
\* a service that has no fallback when the call fails
GenerateTagsNoFallback(svc) == IF svc = "text" THEN <<"praia">> ELSE <<>>

GenerateTagsForImage(svc) ==
  CASE svc = "nokey" -> <<"IA Desativada">>
    [] svc = "error" -> <<"erro de IA">>
    [] svc = "empty" -> <<"falha na marcação">>
    [] OTHER -> <<"praia">>

\* what the service does for each file of a batch: one call per file that
\* handleUpload takes for an image, "none" (no call) for the others
TagChoices(files) ==
  {svcs \in [1..Len(files) -> TagOutcomes \cup {"none"}] :
      \A i \in 1..Len(files) : (svcs[i] = "none") <=> ~StartsWithImage(files[i].type)}

\* handleFileChange: the selected files that are not above the size limit
RECURSIVE HandleFileChange(_)
HandleFileChange(selected) ==
  IF selected = <<>> THEN <<>>
  ELSE (IF Head(selected).size > MaxFileSize THEN <<>> ELSE <<Head(selected)>>)
       \o HandleFileChange(Tail(selected))

\* the orders in which the k promises of a batch can settle
Orders(k) == {o \in [1..k -> 1..k] : \A i, j \in 1..k : i # j => o[i] # o[j]}

\* a batch collected by pushing each result as its promise settles
PromiseAllAsSettled(values, order) == [j \in 1..Len(values) |-> values[order[j]]]

\* Promise.all: the results by position of the promises, whatever the order
\* they settled in
PromiseAll(values, order) == [i \in 1..Len(values) |-> values[i]]

\* the object handleUpload builds for one file
ProcessFile(f, category, svc) ==
  [name |-> f.name,
   type |-> IF StartsWithImage(f.type) THEN "image" ELSE "video",
   mimeType |-> f.type,
   size |-> f.size,
   dataUrl |-> FileToBase64(f),
   category |-> IF category # "" THEN category ELSE SemCategoria,
   tags |-> IF StartsWithImage(f.type) THEN GenerateTagsForImage(svc) ELSE <<>>,
   width |-> IF StartsWithImage(f.type) THEN f.w ELSE Undefined,
   height |-> IF StartsWithImage(f.type) THEN f.h ELSE Undefined]

\* addMedia: files.map(file => ({ ...file, id, uploadDate, views: 0 }))
NewMediaItems(batch, n0, now) ==
  [i \in 1..Len(batch) |->
     Spread(batch[i], [id |-> GenId(n0 + i - 1), uploadDate |-> now, views |-> 0])]

\* addMedia's updater applied by setValue to the storedValue of its closure
AddTo(prev, batch, n0, now) == NewMediaItems(batch, n0, now) \o prev

\* the batches a user can select: any files of F, as many as ids remain
FileSeqs(F) == UNION {[1..n -> F] : n \in 1..MaxIds}

\* handleUpload up to its await: the continuation keeps the addMedia of the
\* render that started it, and with it that render's catalog
HandleUpload(fs, category) ==
  /\ user # Null
  /\ Len(fs) > 0
  /\ Cardinality(uploads) + Cardinality(reads) < MaxPending
  /\ nextId + Len(fs) - 1 <= MaxIds
  /\ uploads' = uploads \cup
        {[key |-> user, mounted |-> TRUE, prev |-> media, files |-> fs, category |-> category]}
  /\ last' = Done("handleUpload", "pending", NoToast)
  /\ UNCHANGED <<localStorage, users, user, media, nextId, reads, download, nearQuota, theme, viewMode, history>>

\* getImageDimensions: img.onload fires, and the promise resolves, only for
\* data that decodes; there is no onerror handler and no timeout
ImageLoads(f) == f.w # Undefined

\* every promise of the batch that waits for getImageDimensions gets settled
DimensionsSettle(files) ==
  \A i \in 1..Len(files) : StartsWithImage(files[i].type) => ImageLoads(files[i])

\* Promise.all resolves: addMedia(mediaToUpload), success toast, onClose()
UploadResolve(up) ==
  /\ up \in uploads
  /\ DimensionsSettle(up.files)
  /\ \E svcs \in TagChoices(up.files), order \in Orders(Len(up.files)),
        now \in Times, wr \in WriteOutcomes :
       /\ SetValue(up.key, up.mounted,
                   AddTo(up.prev,
                         PromiseAll([i \in 1..Len(up.files) |->
                                       ProcessFile(up.files[i], up.category, svcs[i])], order),
                         nextId, now),
                   wr)
       /\ last' = DoneWith("addMedia",
                           <<[key |-> up.key, mounted |-> up.mounted, files |-> up.files, svcs |-> svcs]>>,
                           "added", "none", ToastUploaded(Len(up.files)))
  /\ nextId' = nextId + Len(up.files)
  /\ uploads' = uploads \ {up}
  /\ UNCHANGED <<users, user, reads, download, nearQuota, theme, viewMode, history>>

\* Promise.all rejects because fileToBase64 rejected for the file at position
\* failed (a FileReader error): error toast, nothing is added
UploadReject(up) ==
  /\ up \in uploads
  /\ uploads' = uploads \ {up}
  /\ \E failed \in 1..Len(up.files) :
        last' = DoneWith("handleUpload", <<[mounted |-> up.mounted, files |-> up.files, failed |-> failed]>>,
                         "rejected", "none", ToastUploadFailed)
  /\ UNCHANGED <<localStorage, users, user, media, nextId, reads, download, nearQuota, theme, viewMode, history>>

(* -------------------------- backup / restore -------------------------- *)
\* backupData: JSON.stringify(media, null, 2) offered as a download
BackupData ==
  /\ user # Null
  /\ download' = Stringify(media)
  /\ history' = [history EXCEPT !.backedUp = media]
  /\ last' = Done("backup", "saved", ToastBackup)
  /\ UNCHANGED <<localStorage, users, user, media, nextId, uploads, reads, nearQuota, theme, viewMode>>

\* texts a user can hand to restore
XRec == [id |-> "x1", name |-> "x.png", dataUrl |-> "data:x", uploadDate |-> "t9", views |-> 0]
NoIdRec == [name |-> "x.png", dataUrl |-> "data:x"]
NoNameRec == [id |-> "x2", name |-> "", dataUrl |-> "data:x"]
NoDataRec == [id |-> "x3", name |-> "x.png"]
InvalidTexts == {Garbage, JsonObject, JsonArray(<<NoIdRec>>), JsonArray(<<XRec, NoNameRec>>),
                 JsonArray(<<NoDataRec, XRec>>)}
ValidTexts == {JsonArray(<<>>), JsonArray(<<XRec>>)}
Downloaded == IF download = NoFile THEN {} ELSE {download}

\* restoreData up to reader.readAsText(file)
RestoreData(text) ==
  /\ user # Null
  /\ Cardinality(uploads) + Cardinality(reads) < MaxPending
  /\ reads' = reads \cup {[key |-> user, mounted |-> TRUE, text |-> text]}
  /\ last' = Done("restoreData", "reading", NoToast)
  /\ UNCHANGED <<localStorage, users, user, media, nextId, uploads, download, nearQuota, theme, viewMode, history>>

\* the document passes JSON.parse, Array.isArray and the every() check
RestoreAccepts(text) == ~ParseThrows(text) /\ IsArray(text) /\ EveryValid(text.items)

\* a restore that merges: setMedia(prev => [...restoredMedia, ...prev])
ReaderOnloadMerge(rd) ==
  /\ rd \in reads
  /\ reads' = reads \ {rd}
  /\ IF RestoreAccepts(rd.text)
     THEN /\ \E wr \in WriteOutcomes : SetValue(rd.key, rd.mounted, rd.text.items \o media, wr)
          /\ last' = DoneWith("restore", <<rd>>, "restored", "none", ToastRestored)
     ELSE /\ UNCHANGED <<media, localStorage>>
          /\ last' = DoneWith("restore", <<rd>>, "invalid", "none", ToastRestoreFailed)
  /\ UNCHANGED <<users, user, nextId, uploads, download, nearQuota, theme, viewMode, history>>

\* reader.onload
ReaderOnload(rd) ==
  /\ rd \in reads
  /\ reads' = reads \ {rd}
  /\ IF RestoreAccepts(rd.text)
     THEN /\ \E wr \in WriteOutcomes : SetValue(rd.key, rd.mounted, rd.text.items, wr)
          /\ last' = DoneWith("restore", <<rd>>, "restored", "none", ToastRestored)
     ELSE /\ UNCHANGED <<media, localStorage>>
          /\ last' = DoneWith("restore", <<rd>>, "invalid", "none", ToastRestoreFailed)
  /\ UNCHANGED <<users, user, nextId, uploads, download, nearQuota, theme, viewMode, history>>

(* --------------------------- specification ---------------------------- *)
Partials == {[id |-> "g1"], [uploadDate |-> "t0"], [views |-> 0]}

\* AuthPage.handleSubmit with the form filled from U and P, or left empty
Submit(U, P) ==
  \E u \in U \cup {""}, p \in P \cup {""} :
     SubmitLogin(u, p) \/ SubmitRegister(u, p) \/ SubmitEmpty(u, p)

\* the upload modal, with files chosen from F
Upload(F) ==
  \/ \E selected \in FileSeqs(F), c \in CategoryInputs :
        HandleUpload(HandleFileChange(selected), c)
  \/ \E up \in uploads : UploadResolve(up) \/ UploadReject(up)

\* the detail modal and the context's update
Edit ==
  \/ \E id \in Ids : DeleteMedia(id) \/ IncrementView(id)
  \/ \E id \in Ids, upd \in Partials : UpdateMedia(id, upd)

\* the theme button of Header and the layout buttons of MediaControls
Preferences ==
  \/ ToggleTheme
  \/ \E mode \in ViewModes : SetViewMode(mode)

\* the restore input, with files chosen from T
Restore(T) ==
  \/ \E text \in T : RestoreData(text)
  \/ \E rd \in reads : ReaderOnload(rd)

\* one account and its catalog
Next == Submit({"a"}, {"p"}) \/ Logout \/ Upload({VidFile}) \/ Edit \/ Restore(InvalidTexts \cup ValidTexts)

Spec == Init /\ [][Next]_vars

\* the account directory: every username and password, and the preferences
\* a session switches; no catalog activity
NextAuth == Submit(Usernames, Passwords) \/ Logout \/ Preferences

SpecAuth == Init /\ [][NextAuth]_vars

(* ---------------- specifications that start from a catalog ---------- *)
\* the catalogs a first upload of the account leaves: a batch added to []
FirstBatches == {<<ImgFile>>, <<VidFile>>, <<VidFile, ImgFile>>}
UploadedCatalogs ==
  {AddTo(<<>>, [i \in 1..Len(fs) |-> ProcessFile(fs[i], c, svc)], 1, now) :
     fs \in FirstBatches, c \in CategoryInputs, svc \in {"text"}, now \in Times}

\* account a is logged in and its first upload, if any, has been stored
InitLoggedIn(quota) ==
  /\ users = ("a" :> "p")
  /\ user = "a"
  /\ media \in UploadedCatalogs \cup {<<>>}
  /\ localStorage =
        IF media = <<>>
        THEN ("users" :> JsonDirectory(users)) @@ ("currentUser" :> JsonUser("a"))
        ELSE ("users" :> JsonDirectory(users)) @@ ("currentUser" :> JsonUser("a"))
             @@ (MediaKey("a") :> Stringify(media))
  /\ nextId = Len(media) + 1
  /\ uploads = {}
  /\ reads = {}
  /\ download = NoFile
  /\ nearQuota \in quota
  /\ last = Done("init", "none", NoToast)
  /\ history = NoHistory
  /\ theme = Light
  /\ viewMode = Grid

\* backup and restore of one account's catalog, between edits and sessions
NextRestore ==
  \/ Submit({"a"}, {"p"})
  \/ Logout
  \/ \E id \in Ids : DeleteMedia(id)
  \/ UpdateMedia("g1", [name |-> ""])
  \/ BackupData
  \/ Restore(InvalidTexts \cup ValidTexts \cup Downloaded)

SpecRestore == InitLoggedIn({FALSE}) /\ [][NextRestore]_vars

\* two registered accounts that take turns on one browser
InitAccounts ==
  /\ users = ("a" :> "p") @@ ("b" :> "p")
  /\ user = Null
  /\ media = <<>>
  /\ localStorage = ("users" :> JsonDirectory(users))
  /\ nextId = 1
  /\ uploads = {}
  /\ reads = {}
  /\ download = NoFile
  /\ nearQuota = FALSE
  /\ last = Done("init", "none", NoToast)
  /\ history = NoHistory
  /\ theme = Light
  /\ viewMode = Null

NextAccounts ==
  \/ \E u \in Usernames : SubmitLogin(u, "p")
  \/ Logout
  \/ Upload({VidFile})
  \/ DeleteMedia("g1")
  \/ Restore({JsonArray(<<XRec>>)})

SpecAccounts == InitAccounts /\ [][NextAccounts]_vars

\* the edits of one account's catalog, on ids it holds and ids it does not
NextEdit == Edit \/ Preferences

SpecEdit == InitLoggedIn({FALSE}) /\ [][NextEdit]_vars

\* uploads into the account's catalog: images, videos and oversize files
NextUpload == Upload(Files \cup {BigFile}) \/ DeleteMedia("g1")

SpecUpload == InitLoggedIn({FALSE}) /\ [][NextUpload]_vars

\* uploads whose file reads and tagging calls all settle: the continuation of
\* handleUpload runs as soon as Promise.all is settled
NextSettling == Upload(Files \cup {BadImg}) \/ Logout \/ Submit({"a"}, {"p"})

SpecSettling ==
  /\ InitLoggedIn({FALSE})
  /\ [][NextSettling]_vars
  /\ WF_vars(\E up \in uploads : UploadResolve(up))

\* only incrementView calls, each counted; the storage may be near its quota
NextViewsOnly == \E id \in Ids : CountedView(id)

\* the catalog is changed by incrementView alone, while the interface's
\* preferences are switched
NextViewing == NextViewsOnly \/ Preferences

SpecViews == InitLoggedIn(BOOLEAN) /\ [][NextViewing]_vars

(* ------------------------- the catalog view --------------------------- *)
\* In the view a string is the sequence of its characters.
TodosText == <<"T", "o", "d", "o", "s">>
\* what reading a property that a record does not have gives
UndefinedText == <<"undefined">>

\* String.prototype.toLowerCase, over the characters the inputs use
LowerChar(c) == CASE c = "A" -> "a" [] c = "B" -> "b" [] c = "T" -> "t" [] OTHER -> c
ToLowerCase(str) == [i \in 1..Len(str) |-> LowerChar(str[i])]

\* String.prototype.includes
Includes(str, sub) ==
  \E i \in 0..(Len(str) - Len(sub)) : SubSeq(str, i + 1, i + Len(sub)) = sub

\* inCategory of the filter callback
InCategory(item, activeCategory) ==
  activeCategory = TodosText \/ ("category" \in DOMAIN item /\ item.category = activeCategory)

\* matchesSearch of the filter callback: "true", "false", or "TypeError" when
\* toLowerCase or some is read from an undefined category or tags
MatchesSearch(item, lowerCaseSearch) ==
  IF Includes(ToLowerCase(item.name), lowerCaseSearch) THEN "true"
  ELSE IF "category" \notin DOMAIN item THEN "TypeError"
  ELSE IF Includes(ToLowerCase(item.category), lowerCaseSearch) THEN "true"
  ELSE IF "tags" \notin DOMAIN item THEN "TypeError"
  ELSE IF \E i \in 1..Len(item.tags) : Includes(ToLowerCase(item.tags[i]), lowerCaseSearch)
       THEN "true" ELSE "false"

\* media.filter(item => inCategory && matchesSearch)
RECURSIVE FilterItems(_, _, _)
FilterItems(cat, activeCategory, lowerCaseSearch) ==
  IF cat = <<>> THEN <<>>
  ELSE (IF InCategory(Head(cat), activeCategory) /\ MatchesSearch(Head(cat), lowerCaseSearch) = "true"
        THEN <<Head(cat)>> ELSE <<>>)
       \o FilterItems(Tail(cat), activeCategory, lowerCaseSearch)

\* the effect of MediaGrid: the view it sets, or the exception that ends it
FilterMedia(cat, activeCategory, searchTerm) ==
  LET lowerCaseSearch == ToLowerCase(searchTerm)
  IN IF \E i \in 1..Len(cat) : MatchesSearch(cat[i], lowerCaseSearch) = "TypeError"
     THEN [ret |-> "TypeError", view |-> <<>>]
     ELSE [ret |-> "view", view |-> FilterItems(cat, activeCategory, lowerCaseSearch)]

\* Array.from(new Set(values)): the first occurrence of each value, in order
RECURSIVE FromSet(_, _)
FromSet(values, seen) ==
  IF values = <<>> THEN <<>>
  ELSE (IF Head(values) \in seen THEN <<>> ELSE <<Head(values)>>)
       \o FromSet(Tail(values), seen \cup {Head(values)})

\* .filter(Boolean) on strings and undefined
RECURSIVE FilterBoolean(_)
FilterBoolean(values) ==
  IF values = <<>> THEN <<>>
  ELSE (IF Head(values) \in {<<>>, UndefinedText} THEN <<>> ELSE <<Head(values)>>)
       \o FilterBoolean(Tail(values))

\* categories: ['Todos', ...Array.from(new Set(media.map(m => m.category))).filter(Boolean)]
Categories(cat) ==
  LET allCategories == [i \in 1..Len(cat) |->
                          IF "category" \in DOMAIN cat[i] THEN cat[i].category ELSE UndefinedText]
  IN <<TodosText>> \o FilterBoolean(FromSet(allCategories, {}))

\* the records a catalog can hold, as far as the view reads them: uploaded
\* ones, and restored ones that have an id, a name and a dataUrl only
ViewNames == {<<"a">>, <<"A", "b">>}
ViewCategories == {<<>>, <<"b">>, TodosText}
ViewTags == {<<>>, << <<"a", "b">> >>}
ViewRecords(id) ==
  {[id |-> id, name |-> n, category |-> c, tags |-> t] :
      n \in ViewNames, c \in ViewCategories, t \in ViewTags}
  \cup {[id |-> id, name |-> n] : n \in ViewNames}
ViewCatalogs ==
  UNION {{cat \in [1..n -> UNION {ViewRecords(GenId(i)) : i \in 1..n}] :
             \A i \in 1..n : cat[i].id = GenId(i)} : n \in 0..MaxIds}
SearchTerms == {<<>>, <<"A">>, <<"b">>, <<"z">>}
ActiveCategories == {TodosText, <<"b">>, <<"B">>}

InitView ==
  /\ users = ("a" :> "p")
  /\ user = "a"
  /\ media \in ViewCatalogs
  /\ localStorage = ("users" :> JsonDirectory(users)) @@ ("currentUser" :> JsonUser("a"))
                    @@ (MediaKey("a") :> Stringify(media))
  /\ nextId = Len(media) + 1
  /\ uploads = {}
  /\ reads = {}
  /\ download = NoFile
  /\ nearQuota = FALSE
  /\ last = Done("init", "none", NoToast)
  /\ history = NoHistory
  /\ theme = Light
  /\ viewMode = Grid

\* MediaGrid's effect runs with the header's category and search term
ShowGrid(activeCategory, searchTerm) ==
  /\ user # Null
  /\ LET out == FilterMedia(media, activeCategory, searchTerm)
     IN last' = DoneWith("filter", <<activeCategory, searchTerm, out.view>>, out.ret, "none", NoToast)
  /\ UNCHANGED <<localStorage, users, user, media, nextId, uploads, reads, download, nearQuota, theme, viewMode, history>>

\* MediaProvider's useMemo computes categories
ShowCategories ==
  /\ user # Null
  /\ last' = DoneWith("categories", <<Categories(media)>>, "list", "none", NoToast)
  /\ UNCHANGED <<localStorage, users, user, media, nextId, uploads, reads, download, nearQuota, theme, viewMode, history>>

NextView ==
  \/ \E c \in ActiveCategories, t \in SearchTerms : ShowGrid(c, t)
  \/ ShowCategories

SpecView == InitView /\ [][NextView]_vars

(* ------------------- what the claims speak about --------------------- *)
\* a property of a record as JavaScript reads it: a missing numeric
\* property reads as undefined, a missing string property as "undefined"
ViewsField(r) == IF "views" \in DOMAIN r THEN r.views ELSE Undefined
DateField(r) == IF "uploadDate" \in DOMAIN r THEN r.uploadDate ELSE "undefined"
IdsOf(cat) == {cat[i].id : i \in 1..Len(cat)}

\* the step just taken ran on the catalog of one session
SameSession == user' = user /\ user # Null

(* ------------------------------- C1 ----------------------------------- *)
\* C1: in every reachable state the ids of the records of the catalog are
\* pairwise distinct.
C1_IdsPairwiseDistinct ==
  \A i, j \in 1..Len(media) : i # j => media[i].id # media[j].id

(* ------------------------------- C8 ----------------------------------- *)
\* C8: no step of add, delete, update, incrementView or restore lowers the
\* viewCount of a record whose id is in the catalog before and after it.
C8_ViewsNeverDecrease ==
  [][SameSession =>
       \A i \in 1..Len(media), j \in 1..Len(media') :
          media[i].id = media'[j].id => ViewsOr0(media'[j]) >= ViewsOr0(media[i])]_vars

(* ------------------------------- C9 ----------------------------------- *)
\* C9: no step of update, incrementView, add or delete changes the uploadDate
\* of a record whose id is in the catalog before and after it.
C9_UploadDateImmutable ==
  [][(SameSession /\ last'.op \in {"update", "view", "addMedia", "delete"}) =>
       \A i \in 1..Len(media), j \in 1..Len(media') :
          media[i].id = media'[j].id => DateField(media'[j]) = DateField(media[i])]_vars

(* ------------------------------- C10 ---------------------------------- *)
\* C10: an addMedia call with a batch of k inputs leaves the catalog as k new
\* records, with viewCount 0 and ids that are new and distinct, in the batch's
\* order, followed by the catalog as it was before the call.
C10_AddPrepends ==
  [][(SameSession /\ last'.op = "addMedia" /\ last'.arg[1].mounted) =>
       LET files == last'.arg[1].files
           k == Len(files)
       IN /\ Len(media') = Len(media) + k
          /\ SubSeq(media', k + 1, Len(media')) = media
          /\ \A i \in 1..k :
                /\ media'[i].views = 0
                /\ media'[i].name = files[i].name
                /\ media'[i].id \notin IdsOf(media)
                /\ \A j \in 1..k : i # j => media'[i].id # media'[j].id]_vars

(* ---------------------------- C2, C3, C4 ------------------------------ *)
\* a record has a non-empty id, name and content
HasText(r, f) == f \in DOMAIN r /\ r[f] # ""
Complete(r) == HasText(r, "id") /\ HasText(r, "name") /\ HasText(r, "dataUrl")
WellFormed(cat) == \A i \in 1..Len(cat) : Complete(cat[i])

\* a document restore must refuse: no JSON, no array, or an incomplete element
DocInvalid(text) ==
  \/ text.kind # "array"
  \/ \E i \in 1..Len(text.items) : ~Complete(text.items[i])

\* two records have the same field values: a property only one of them has
\* holds undefined
SameRecord(r, q) ==
  \A f \in (DOMAIN r) \cup (DOMAIN q) :
     IF f \in DOMAIN r /\ f \in DOMAIN q THEN r[f] = q[f]
     ELSE IF f \in DOMAIN r THEN f \in NumFields /\ r[f] = Undefined
     ELSE f \in NumFields /\ q[f] = Undefined
SameCatalog(c, d) == Len(c) = Len(d) /\ \A i \in 1..Len(c) : SameRecord(c[i], d[i])

\* the step just taken was reader.onload of the read rd
Restored == last.op = "restore"
RestoredBackup ==
  /\ Restored
  /\ download # NoFile
  /\ last.arg[1].text = download
  /\ last.arg[1].mounted

\* C2: once the document that backupData produced from a well-formed catalog c
\* has been restored, the catalog has the records of c, with the same field
\* values, in the same order.
C2_RestoreOfBackup ==
  (RestoredBackup /\ WellFormed(history.backedUp)) => SameCatalog(media, history.backedUp)

\* the backup held a video, whose undefined width and height JSON leaves out,
\* and it was restored over a catalog that had changed since
C2_Witness ==
  /\ RestoredBackup
  /\ WellFormed(history.backedUp)
  /\ \E i \in 1..Len(history.backedUp) : history.backedUp[i].width = Undefined
  /\ media # history.backedUp
  /\ SameCatalog(media, history.backedUp)

\* C3: reader.onload of a document that is no JSON, no array, or has an
\* element without a non-empty id, name or dataUrl changes neither the catalog
\* in memory nor anything stored, and shows the invalid-file toast.
C3_InvalidRestoreChangesNothing ==
  [][(last'.op = "restore" /\ DocInvalid(last'.arg[1].text)) =>
       (media' = media /\ localStorage' = localStorage /\ last'.toast = ToastRestoreFailed)]_vars

\* an array with one incomplete element was refused and the catalog is still there
C3_Witness ==
  /\ Restored
  /\ last.arg[1].text.kind = "array"
  /\ DocInvalid(last.arg[1].text)
  /\ last.arg[1].mounted
  /\ Len(media) > 0
  /\ last.toast = ToastRestoreFailed

\* C4: reader.onload of a valid document leaves the catalog equal to the parsed
\* array: in memory for the provider that started the read, and under that
\* provider's key in localStorage.
C4_RestoreReplaces ==
  [][(last'.op = "restore" /\ ~DocInvalid(last'.arg[1].text)) =>
       LET rd == last'.arg[1]
       IN /\ rd.mounted => media' = rd.text.items
          /\ ~nearQuota => LoadMedia(localStorage', MediaKey(rd.key)) = rd.text.items
          /\ last'.toast = ToastRestored]_vars

\* the account had uploaded records; after the restore only the document's is left
C4_Witness ==
  /\ Restored
  /\ last.ret = "restored"
  /\ last.arg[1].mounted
  /\ nextId > 1
  /\ Len(media) = 1
  /\ media[1].id = "x1"
  /\ media = last.arg[1].text.items

(* ------------------------------ C5, C6 -------------------------------- *)
\* C5: a login call succeeds, and sets the session, exactly when its pair is
\* in the directory that the register calls returned so far have stored;
\* otherwise it fails and leaves the session as it was.
C5_LoginIffRegistered ==
  [][last'.login # "none" =>
       LET u == last'.arg[1]
           p == last'.arg[2]
       IN IF u \in DOMAIN users' /\ users'[u] = p
          THEN last'.login = "true" /\ user' = u
          ELSE last'.login = "false" /\ user' = user]_vars

\* C6: no step changes the password stored for a username, and a register
\* call for a username of the directory returns failure and changes nothing.
C6_DuplicateRegisterFails ==
  [][/\ \A u \in DOMAIN users : u \in DOMAIN users' /\ users'[u] = users[u]
     /\ (last'.op = "register" /\ last'.arg[1] \in DOMAIN users) =>
           (last'.ret = "false" /\ users' = users /\ localStorage' = localStorage)]_vars

\* a second register for a username, with another password, has failed
C6_Witness ==
  /\ last.op = "register"
  /\ last.ret = "false"
  /\ last.arg[1] \in DOMAIN users
  /\ users[last.arg[1]] # last.arg[2]
  /\ Cardinality(DOMAIN users) = 2

(* ------------------------------- C7 ----------------------------------- *)
\* C7: after n incrementView calls on the id of a record that started with
\* viewCount 0, and no other call, the record's viewCount is n.
C7_ViewsCountCalls ==
  \A i \in 1..Len(media) : ViewsField(media[i]) = history.viewCalls[media[i].id]

\* a record has been viewed twice
C7_Witness ==
  \E i \in 1..Len(media) :
     ViewsField(media[i]) = 2 /\ history.viewCalls[media[i].id] = 2

(* ------------------------------- C11 ---------------------------------- *)
\* the steps that change a catalog
MutationOps == {"addMedia", "delete", "update", "view", "restore"}

\* the catalog a provider mounted for username w would load
StoredCatalog(ls, w) == LoadMedia(ls, MediaKey(w))

\* C11: after a catalog mutation made by the mounted provider (a restore
\* counts when it succeeded), the catalog stored under the user's key has the
\* records of the catalog in memory, whether or not setItem threw.
C11_PersistedEqualsMemory ==
  (/\ user # Null
   /\ last.op \in MutationOps
   /\ last.op = "restore" => last.ret = "restored"
   /\ last.op \in {"addMedia", "restore"} => last.arg[1].mounted)
  => SameCatalog(StoredCatalog(localStorage, user), media)

(* ---------------------------- C13, C14 ------------------------------- *)
\* a record passes the category filter
PassesCategory(r, activeCategory) ==
  activeCategory = TodosText \/ ("category" \in DOMAIN r /\ r.category = activeCategory)

\* a record passes the text filter: the lowercased term is part of its
\* lowercased name, category or one of its tags
PassesText(r, term) ==
  LET t == ToLowerCase(term)
  IN \/ Includes(ToLowerCase(r.name), t)
     \/ "category" \in DOMAIN r /\ Includes(ToLowerCase(r.category), t)
     \/ "tags" \in DOMAIN r /\ \E i \in 1..Len(r.tags) : Includes(ToLowerCase(r.tags[i]), t)

\* C13: whenever MediaGrid's effect has run, the view is the catalog's records
\* that pass the category filter and the text filter, in catalog order.
C13_ViewIsFilteredCatalog ==
  last.op = "filter" =>
     /\ last.ret = "view"
     /\ last.arg[3] = SelectSeq(media, LAMBDA r : PassesCategory(r, last.arg[1]) /\ PassesText(r, last.arg[2]))

\* C14: categories is the sentinel followed by the distinct non-empty
\* categories of the catalog in first-seen order, and has no duplicates.
C14_CategoriesDistinct ==
  last.op = "categories" =>
     LET list == last.arg[1]
     IN /\ list[1] = TodosText
        /\ \A i, j \in 1..Len(list) : i # j => list[i] # list[j]
        /\ \A i \in 1..Len(media) :
              ("category" \in DOMAIN media[i] /\ media[i].category # <<>>)
                 => \E j \in 2..Len(list) : list[j] = media[i].category

(* ------------------------- C15, C16, C17, C18 ------------------------- *)
\* the step taken is the addMedia of a batch by a provider still mounted
AddsBatch == last'.op = "addMedia" /\ last'.arg[1].mounted
AddedBatch == last.op = "addMedia" /\ last.arg[1].mounted

\* the MIME types that denote an image, among those of the files
ImageMimes == {"image/png"}
FallbackTags == {<<"IA Desativada">>, <<"erro de IA">>, <<"falha na marcação">>}

\* C15: when reading one file of a batch fails, every other file of the batch
\* is still added to the catalog.
C15_OtherFilesAdded ==
  [][(last'.op = "handleUpload" /\ last'.ret = "rejected" /\ last'.arg[1].mounted) =>
       LET files == last'.arg[1].files
       IN \A i \in 1..Len(files) :
             i # last'.arg[1].failed =>
                \E j \in 1..Len(media') :
                   media'[j].name = files[i].name /\ media'[j].id \notin IdsOf(media)]_vars

\* C16: when the tagging service has no key, throws or answers without text
\* for an image of a batch, the batch is still added and the image's record
\* carries one of the non-empty fallback tag lists.
C16_TaggingNeverFailsUpload ==
  [][AddsBatch =>
       LET files == last'.arg[1].files
           svcs == last'.arg[1].svcs
       IN \A i \in 1..Len(files) :
             svcs[i] \in {"nokey", "error", "empty"} =>
                /\ Len(media') >= Len(files)
                /\ media'[i].name = files[i].name
                /\ media'[i].tags # <<>>
                /\ media'[i].tags \in FallbackTags]_vars

\* an image was added although the service threw
C16_Witness ==
  /\ AddedBatch
  /\ \E i \in 1..Len(last.arg[1].files) :
        /\ last.arg[1].svcs[i] = "error"
        /\ media[i].name = last.arg[1].files[i].name
        /\ media[i].tags = <<"erro de IA">>

\* C17: a file is recorded as image exactly when its MIME type is an image
\* type and as video otherwise; a video/mp4 file gets no tags, no width and no
\* height; the tagging service is called for the image files and only them.
C17_KindFromMime ==
  [][AddsBatch =>
       LET files == last'.arg[1].files
           svcs == last'.arg[1].svcs
       IN \A i \in 1..Len(files) :
             /\ media'[i].type = (IF files[i].type \in ImageMimes THEN "image" ELSE "video")
             /\ files[i].type = "video/mp4" =>
                   /\ media'[i].tags = <<>>
                   /\ media'[i].width = Undefined
                   /\ media'[i].height = Undefined
             /\ (svcs[i] # "none") <=> (files[i].type \in ImageMimes)]_vars

\* a batch of a video and an image was added
C17_Witness ==
  /\ AddedBatch
  /\ Len(last.arg[1].files) = 2
  /\ last.arg[1].files[1].type = "video/mp4"
  /\ last.arg[1].files[2].type = "image/png"
  /\ media[1].type = "video"
  /\ media[2].type = "image"
  /\ last.arg[1].svcs[1] = "none"

\* C18: ids that were never generated before enter the catalog only in an
\* addMedia step, all those of the batch at once, and the new records are the
\* batch's files in submission order.
C18_BatchAddedAtOnce ==
  [][LET before == {GenId(n) : n \in 1..(nextId - 1)}
         fresh == IdsOf(media') \ before
     IN /\ (fresh # {} \/ nextId' # nextId) => last'.op = "addMedia"
        /\ last'.op = "addMedia" => nextId' = nextId + Len(last'.arg[1].files)
        /\ AddsBatch =>
              LET files == last'.arg[1].files
              IN /\ fresh = {GenId(n) : n \in nextId..(nextId' - 1)}
                 /\ \A i \in 1..Len(files) :
                       /\ media'[i].id \in fresh
                       /\ media'[i].name = files[i].name
                       /\ media'[i].mimeType = files[i].type]_vars

\* a batch of two different files was added, the first file first
C18_Witness ==
  /\ AddedBatch
  /\ Len(last.arg[1].files) = 2
  /\ last.arg[1].files[1] # last.arg[1].files[2]
  /\ media[1].name = last.arg[1].files[1].name
  /\ media[2].name = last.arg[1].files[2].name

(* ------------------------------- C12 ---------------------------------- *)
\* what is stored under the catalog key of username w
StoredText(ls, w) == IF MediaKey(w) \in DOMAIN ls THEN ls[MediaKey(w)] ELSE NoFile

\* the username whose session issued the mutation of the step: for an upload
\* or a restore the one that started it, else the one logged in
Issuer == IF last'.op \in {"addMedia", "restore"} THEN last'.arg[1].key ELSE user

\* C12: a step changes what is stored under media_<w> only if it is a catalog
\* mutation issued by a session of w; an upload or restore started by another
\* username's session does not change the catalog in memory either.
C12_CatalogsNotShared ==
  [][/\ \A w \in Usernames :
           StoredText(localStorage', w) # StoredText(localStorage, w) =>
              (last'.op \in MutationOps /\ Issuer = w)
     /\ (last'.op \in {"addMedia", "restore"} /\ user' = user /\ last'.arg[1].key # user) =>
           media' = media]_vars

\* an upload started by a ended after a had logged out and b had logged in:
\* it is in a's stored catalog, b's catalogs are as they were
C12_Witness ==
  /\ last.op = "addMedia"
  /\ last.arg[1].key = "a"
  /\ user = "b"
  /\ Len(StoredCatalog(localStorage, "a")) > 0
  /\ Len(StoredCatalog(localStorage, "b")) > 0
  /\ media = StoredCatalog(localStorage, "b")
  /\ IdsOf(StoredCatalog(localStorage, "a")) \cap IdsOf(media) = {}

(* ------------------------------- C19 ---------------------------------- *)
\* C19: deleteMedia(id) leaves the records whose id is not id, in their order;
\* updateMedia(id, fields) gives the records with that id the given fields and
\* leaves their other fields and every other record as they were; neither
\* reports anything, also when no record has the id.
C19_DeleteUpdateFrame ==
  [][/\ last'.op = "delete" =>
           /\ media' = SelectSeq(media, LAMBDA r : r.id # last'.arg[1])
           /\ last'.toast = NoToast
     /\ last'.op = "update" =>
           LET id == last'.arg[1]
               fields == last'.arg[2]
           IN /\ Len(media') = Len(media)
              /\ last'.toast = NoToast
              /\ \A i \in 1..Len(media) :
                    IF media[i].id = id
                    THEN /\ DOMAIN media'[i] = (DOMAIN media[i]) \cup (DOMAIN fields)
                         /\ \A f \in DOMAIN media'[i] :
                               media'[i][f] = IF f \in DOMAIN fields THEN fields[f] ELSE media[i][f]
                    ELSE media'[i] = media[i]]_vars

\* an update changed one record of a catalog of two and left the other alone
C19_Witness ==
  /\ last.op = "update"
  /\ "uploadDate" \in DOMAIN last.arg[2]
  /\ Len(media) = 2
  /\ \E i, j \in 1..2 :
        /\ media[i].id = last.arg[1]
        /\ media[j].id # last.arg[1]
        /\ \A f \in DOMAIN last.arg[2] : media[i][f] = last.arg[2][f] /\ media[j][f] # last.arg[2][f]

(* ------------------------------- C20 ---------------------------------- *)
\* C20: when the form was submitted in register mode with a username that was
\* not in the directory, then after the handler the account is stored and the
\* session is that username's.
C20_AutoLoginAfterRegister ==
  [][(last'.op = "register" /\ last'.arg[1] \notin DOMAIN users) =>
        /\ last'.arg[1] \in DOMAIN users'
        /\ users'[last'.arg[1]] = last'.arg[2]
        /\ user' = last'.arg[1]]_vars

(* ------------------------------- C21 ---------------------------------- *)
\* C21: when the addMedia of an upload takes effect, the catalog is the new
\* batch followed by the catalog as it was just before, with every delete,
\* update, view and restore made since the upload started.
C21_NoLostUpdate ==
  [][AddsBatch =>
       LET k == Len(last'.arg[1].files)
       IN /\ Len(media') >= k
          /\ [i \in 1..(Len(media') - k) |-> media'[k + i]] = media]_vars

(* ------------------------------- C22 ---------------------------------- *)
\* C22: every started upload eventually finishes, with addMedia or with the
\* error toast: whenever an upload is in flight, later none is.
C22_UploadFinishes == (uploads # {}) ~> (uploads = {})

====
